---- MODULE Spec2Model ----
(***************************************************************************)
(* A model of src/framework/codec.h: the encode Buffer, EncState::get_ttl, *)
(* the SnortData packed decode_flags field and reset(), and the decode     *)
(* loop's use of the CODEC_SAVE_LAYER / CODEC_UNSURE_ENCAP flags.          *)
(*                                                                         *)
(* Numbers.  Model values stay below 2^31, so a uint32_t is kept as a      *)
(* pair <<hi, lo>> of 16-bit limbs (value hi * 2^16 + lo) and arithmetic   *)
(* on it is done limb by limb, modulo 2^32, as the machine does it.  A     *)
(* pointer into the byte array is the pair <<hi, lo>> of its signed offset *)
(* from the array's first byte buf: lo is a 16-bit limb and hi any         *)
(* integer, so that an offset below buf is representable (64-bit flat      *)
(* address arithmetic).                                                    *)
(***************************************************************************)
EXTENDS Integers, Sequences, FiniteSets

VARIABLES
    \* struct Buffer
    base, off, end, max_len,
    \* observation of the last Buffer call: its name, argument, result, the
    \* Buffer before it, and the lowest first byte of the regions handed out
    \* since the last clear()
    bop, barg, bret, bpre, lowest,
    \* struct EncState (flags as the set of its bit positions), the argument
    \* of the last get_ttl call and its result
    flags, ttl, lyr_ttl, ttl_ret,
    \* struct SnortData, and the last call on it: its name, its argument and
    \* the decode_flags (set_pkt_type) or the whole struct (reset) before it
    sd, sop, sarg, spre,
    \* the decode of one packet: the CodecData handed from layer to layer,
    \* the number of layers decoded, how the decode stands, and the state
    \* the loop saved at the last save layer
    cd, num_layers, status, saved,
    \* observation of the decode: decode_flags and proto_bits after each
    \* decoded layer, the last layer that marked itself CODEC_ENCAP_LAYER
    \* (0: none), the layer that failed (0: none) and whether the failed
    \* codec had written to SnortData and CodecData before it failed
    hist, save_at, fail_at, fail_wrote

bufVars == <<base, off, end, max_len, bop, barg, bret, bpre, lowest>>
encVars == <<flags, ttl, lyr_ttl, ttl_ret>>
sdVars == <<sd, sop, sarg, spre>>

decVars == <<cd, num_layers, status, saved, hist, save_at, fail_at, fail_wrote>>

vars == <<bufVars, encVars, sdVars, decVars>>

----------------------------------------------------------------------------
(* Bounds of the model *)

\* largest array size a Buffer is constructed over
MaxCap == 4
\* allocate() is called with 0..MaxLen and with 2^32-MaxLen .. 2^32-1
MaxLen == 3
\* how many times 2^32 bytes the write cursor may end up below the array
MaxWrap == 2
\* the most layers a packet is decoded into
MaxLayers == 5

----------------------------------------------------------------------------
(* Fixed-width arithmetic *)

Limb == 2^16

\* the uint32_t of a small natural number
U32(n) == <<n \div Limb, n % Limb>>

\* uint32_t + uint32_t, modulo 2^32
Add32(a, b) ==
    LET lo == a[2] + b[2]
        hi == a[1] + b[1] + (lo \div Limb)
    IN  <<hi % Limb, lo % Limb>>

\* uint32_t > uint32_t
Gt32(a, b) == a[1] > b[1] \/ (a[1] = b[1] /\ a[2] > b[2])

\* pointer + uint32_t and pointer - uint32_t: the uint32_t is widened, the
\* pointer is not reduced modulo 2^32
PtrAdd(p, n) ==
    LET lo == p[2] + n[2]
    IN  <<p[1] + n[1] + (lo \div Limb), lo % Limb>>

PtrSub(p, n) ==
    LET lo == p[2] - n[2]
    IN  <<p[1] - n[1] - (IF lo < 0 THEN 1 ELSE 0), lo % Limb>>

\* pointer <= pointer
PtrLe(p, q) == p[1] < q[1] \/ (p[1] = q[1] /\ p[2] <= q[2])

\* the first byte of the array a Buffer is constructed over
buf == <<0, 0>>

\* a & b, a | b and ~a on w-bit patterns
RECURSIVE BitAnd(_, _, _)
BitAnd(a, b, w) ==
    IF w = 0 \/ a = 0 \/ b = 0 THEN 0
    ELSE (a % 2) * (b % 2) + 2 * BitAnd(a \div 2, b \div 2, w - 1)

RECURSIVE BitOr(_, _, _)
BitOr(a, b, w) ==
    IF w = 0 \/ (a = 0 /\ b = 0) THEN 0
    ELSE (IF a % 2 = 1 \/ b % 2 = 1 THEN 1 ELSE 0)
         + 2 * BitOr(a \div 2, b \div 2, w - 1)

BitNot(a, w) == 2^w - 1 - a

\* the operators on uint16_t operands: the bits the integer promotion adds
\* above bit 15 are dropped when the result is stored in a uint16_t
And16(a, b) == BitAnd(a, b, 16)
Or16(a, b) == BitOr(a, b, 16)
Not16(a) == BitNot(a, 16)

----------------------------------------------------------------------------
(* struct Buffer *)

\* the sizes a Buffer is constructed with
CapSet == {U32(n) : n \in 0..MaxCap}

\* the lengths allocate() is called with: small ones, 2^31, and the largest
\* 32-bit values
LenSet == {U32(n) : n \in 0..MaxLen}
          \cup {<<Limb \div 2, 0>>}
          \cup {<<Limb - 1, Limb - n>> : n \in 1..MaxLen}

\* the values a client stores in the public field off
OffSet == {U32(n) : n \in 0..1}

\* Buffer::Buffer's initialiser of base
Buffer_base(b, size) == PtrAdd(PtrAdd(b, size), U32(1))

\* Buffer::size()
size == end

\* a test that forgets what is already committed
allocate_fits_len_only(e, len, cap) == ~Gt32(len, cap)

\* the test of Buffer::allocate, computed in uint32_t
allocate_fits(e, len, cap) == ~Gt32(Add32(e, len), cap)

\* end = len in place of end += len
allocate_end_assign(e, len) == len

\* end += len
allocate_end(e, len) == Add32(e, len)

\* base -= len
allocate_base(b, len) == PtrSub(b, len)

\* base = base + end
clear_base(b, e) == PtrAdd(b, e)

Snapshot == [base |-> base, off |-> off, end |-> end, lowest |-> lowest]

NoRegion == <<>>

\* the lowest first byte of the regions handed out so far, after one more
\* region of len bytes starting at b
Lowest(lo, b, len) ==
    IF len = U32(0) THEN lo
    ELSE IF lo = NoRegion \/ PtrLe(b, lo) THEN b
    ELSE lo

Allocate(len) ==
    /\ bop' = "allocate"
    /\ barg' = len
    /\ bpre' = Snapshot
    /\ IF allocate_fits(end, len, max_len)
       THEN /\ allocate_base(base, len)[1] >= -(MaxWrap * Limb)
            /\ end' = allocate_end(end, len)
            /\ base' = allocate_base(base, len)
            /\ bret' = TRUE
            /\ lowest' = Lowest(lowest, base', len)
       ELSE /\ bret' = FALSE
            /\ UNCHANGED <<base, end, lowest>>
    /\ UNCHANGED <<off, max_len>>
    /\ UNCHANGED <<encVars, sdVars, decVars>>

Clear ==
    /\ bop' = "clear"
    /\ barg' = U32(0)
    /\ bret' = TRUE
    /\ bpre' = Snapshot
    /\ base' = clear_base(base, end)
    /\ end' = U32(0)
    /\ off' = U32(0)
    /\ lowest' = NoRegion
    /\ UNCHANGED max_len
    /\ UNCHANGED <<encVars, sdVars, decVars>>

\* a client's store to the public field off
SetOff(v) ==
    /\ bop' = "off"
    /\ barg' = v
    /\ bret' = TRUE
    /\ bpre' = Snapshot
    /\ off' = v
    /\ UNCHANGED <<base, end, max_len, lowest>>
    /\ UNCHANGED <<encVars, sdVars, decVars>>

----------------------------------------------------------------------------
(* struct EncState *)

U8 == 0..255

MIN_TTL == 64
MAX_TTL == 255

\* EncodeFlags is a 64-bit set of bits: a value is the set of the positions
\* of its 1 bits, f & g is the intersection and a value is true when it is
\* not empty
ENC_FLAG_FWD == {63}
ENC_FLAG_TTL == {54}
ENC_FLAG_INLINE == {53}

And64(f, g) == f \cap g
Truth(f) == f # {}

EncodeFlagSets == SUBSET (ENC_FLAG_FWD \cup ENC_FLAG_TTL \cup ENC_FLAG_INLINE)

forward(f) == Truth(And64(f, ENC_FLAG_FWD))
reverse(f) == ~forward(f)

\* get_ttl without the floor of MIN_TTL
get_ttl_no_floor(f, t, l) ==
    IF Truth(And64(f, ENC_FLAG_TTL)) THEN t
    ELSE IF forward(f) THEN l
    ELSE (MAX_TTL - l) % 256

\* EncState::get_ttl on an EncState with flags f and ttl t
get_ttl(f, t, l) ==
    IF forward(f)
    THEN IF Truth(And64(f, ENC_FLAG_TTL)) THEN t ELSE l
    ELSE LET new_ttl == IF Truth(And64(f, ENC_FLAG_TTL))
                        THEN t
                        ELSE (MAX_TTL - l) % 256
         IN  IF new_ttl < MIN_TTL THEN MIN_TTL ELSE new_ttl

\* ttl_ret before the call, and holding the value v returned
NoTtl == <<>>
Returned(v) == <<v>>

GetTtl ==
    /\ ttl_ret = NoTtl
    /\ ttl_ret' = Returned(get_ttl(flags, ttl, lyr_ttl))
    /\ UNCHANGED <<flags, ttl, lyr_ttl>>
    /\ UNCHANGED <<bufVars, sdVars, decVars>>

----------------------------------------------------------------------------
(* enum DecodeFlags, enum class PktType, struct SnortData *)

PKT_TYPE_UNKOWN == 0
PKT_TYPE_IP == 1
PKT_TYPE_TCP == 2
PKT_TYPE_UDP == 3
PKT_TYPE_ICMP4 == 4
PKT_TYPE_ICMP6 == 5
PKT_TYPE_ARP == 6
PKT_TYPE_FREE == 7
PKT_TYPE_MASK == 7

DECODE_ERR_CKSUM_IP == 8
DECODE_ERR_CKSUM_TCP == 16
DECODE_ERR_CKSUM_UDP == 32
DECODE_ERR_CKSUM_ICMP == 64
DECODE_ERR_CKSUM_ANY == 128
DECODE_ERR_BAD_TTL == 256
DECODE_ERR_FLAGS ==
    Or16(DECODE_ERR_CKSUM_IP, Or16(DECODE_ERR_CKSUM_TCP,
    Or16(DECODE_ERR_CKSUM_UDP, Or16(DECODE_ERR_CKSUM_UDP,
    Or16(DECODE_ERR_CKSUM_ICMP, Or16(DECODE_ERR_CKSUM_ANY,
         DECODE_ERR_BAD_TTL))))))
DECODE_PKT_TRUST == 512
DECODE_FRAG == 1024
DECODE_MF == 2048

\* the enumerators of PktType
PktType == {PKT_TYPE_UNKOWN, PKT_TYPE_IP, PKT_TYPE_TCP, PKT_TYPE_UDP,
            PKT_TYPE_ICMP4, PKT_TYPE_ICMP6, PKT_TYPE_ARP}

\* the flags of DecodeFlags above the packet type
DecodeFlagBits == {DECODE_ERR_CKSUM_IP, DECODE_ERR_CKSUM_TCP,
                   DECODE_ERR_CKSUM_UDP, DECODE_ERR_CKSUM_ICMP,
                   DECODE_ERR_CKSUM_ANY, DECODE_ERR_BAD_TTL,
                   DECODE_PKT_TRUST, DECODE_FRAG, DECODE_MF}

\* the members of SnortData in the order of their declaration
SnortDataMembers ==
    <<"tcph", "udph", "icmph", "sp", "dp", "decode_flags", "ip_api", "mplsHdr">>

\* offsetof(SnortData, m), counted in members: tcph is at offset 0 and the
\* members (and the padding) before m are what lies below m
offsetof(m) ==
    (CHOOSE i \in 1..Len(SnortDataMembers) : SnortDataMembers[i] = m) - 1

\* memset(&from, '\0', n) on the struct s
memset(s, from, n) ==
    [m \in DOMAIN s |->
        IF offsetof(from) <= offsetof(m) /\ offsetof(m) < offsetof(from) + n
        THEN 0
        ELSE s[m]]

\* ip::IpApi::reset()
IpApi_reset(api) == "none"

\* a reset() whose memset stops at decode_flags
reset_before_decode_flags(s) ==
    [memset(s, "tcph", offsetof("decode_flags")) EXCEPT !.ip_api = IpApi_reset(@)]

\* SnortData::reset()
reset(s) ==
    [memset(s, "tcph", offsetof("ip_api")) EXCEPT !.ip_api = IpApi_reset(@)]

\* a set_pkt_type that overwrites the whole field
set_pkt_type_overwrite(df, pkt_type) == pkt_type

\* SnortData::set_pkt_type: the new decode_flags
set_pkt_type(df, pkt_type) == Or16(And16(df, Not16(PKT_TYPE_MASK)), pkt_type)

\* SnortData::get_pkt_type
get_pkt_type(df) == And16(df, PKT_TYPE_MASK)

\* the values of the members: a null or a non-null header pointer, a port,
\* an IpApi that is reset or holds an IPv4 header
Null == 0
SnortDataValues ==
    [tcph : {Null, 1}, udph : {Null, 1}, icmph : {Null, 1},
     sp : {0, 65535}, dp : {0, 65535},
     decode_flags : {0, 65535},
     ip_api : {"none", "ip4"}, mplsHdr : {0, 1}]

\* the members a codec stores to, with the values stored
Stores ==
    {<<m, v>> \in {"tcph", "udph", "icmph"} \X {Null, 1} : TRUE}
    \cup {<<m, v>> \in {"sp", "dp"} \X {0, 65535} : TRUE}
    \cup {<<"ip_api", "none">>, <<"ip_api", "ip4">>}

\* the flags a codec sets in the runs that reset()
FlagsBeforeReset == {DECODE_ERR_CKSUM_TCP, DECODE_FRAG}

\* decode_flags of a SnortData that was never reset(): the struct has no
\* constructor
JunkDecodeFlags == {0, 20485, 40962, 61447, 65535}

NoCall == <<>>

Reset ==
    /\ sop' = "reset"
    /\ sarg' = NoCall
    /\ spre' = <<sd>>
    /\ sd' = reset(sd)
    /\ UNCHANGED <<bufVars, encVars, decVars>>

SetPktType(t) ==
    /\ sop' = "set_pkt_type"
    /\ sarg' = <<t>>
    /\ spre' = <<sd.decode_flags>>
    /\ sd' = [sd EXCEPT !.decode_flags = set_pkt_type(@, t)]
    /\ UNCHANGED <<bufVars, encVars, decVars>>

\* a codec's decode_flags |= f
SetDecodeFlag(f) ==
    /\ sop' = "flag"
    /\ sarg' = NoCall
    /\ spre' = NoCall
    /\ sd' = [sd EXCEPT !.decode_flags = Or16(@, f)]
    /\ UNCHANGED <<bufVars, encVars, decVars>>

\* a codec's store to a header pointer, a port or the IpApi
Store(m, v) ==
    /\ sop' = "store"
    /\ sarg' = NoCall
    /\ spre' = NoCall
    /\ sd' = [sd EXCEPT ![m] = v]
    /\ UNCHANGED <<bufVars, encVars, decVars>>

----------------------------------------------------------------------------
(* struct CodecData, the codec flags and the decode loop *)

PROTO_BIT__NONE == 0
PROTO_BIT__IP == 1
PROTO_BIT__TCP == 4
PROTO_BIT__ETH == 512

CODEC_DF == 1
CODEC_UNSURE_ENCAP == 2
CODEC_SAVE_LAYER == 4

\* an encapsulation mark that names the save layer only
CODEC_ENCAP_LAYER_save_only == CODEC_SAVE_LAYER

CODEC_ENCAP_LAYER == Or16(CODEC_SAVE_LAYER, CODEC_UNSURE_ENCAP)

\* CodecData::CodecData: the fields the decode loop reads
CodecData == [proto_bits |-> PROTO_BIT__NONE, codec_flags |-> 0]

\* the codecs of the chain: the bit each adds to proto_bits and the
\* decode-error flag it sets on a bad checksum
Codecs ==
    [eth  |-> [bit |-> PROTO_BIT__ETH, err |-> DECODE_ERR_BAD_TTL],
     ipv4 |-> [bit |-> PROTO_BIT__IP,  err |-> DECODE_ERR_CKSUM_IP],
     tcp  |-> [bit |-> PROTO_BIT__TCP, err |-> DECODE_ERR_CKSUM_TCP]]

\* the codec of layer n + 1: the link layer first, then what next_prot_id
\* of the layer before selects
NextCodecs(n) == IF n = 0 THEN {"eth"} ELSE {"ipv4", "tcp"}

\* how a decode() call ends: success, success of a layer that marks itself
\* CODEC_ENCAP_LAYER, failure
Outcomes == {"ok", "encap", "fail"}

\* Codec::decode of codec c on SnortData s: with err it flags a decode
\* error, also when it goes on to fail
codec_SnortData(c, s, err) ==
    IF err THEN [s EXCEPT !.decode_flags = Or16(@, Codecs[c].err)] ELSE s

\* Codec::decode of codec c on CodecData d
codec_CodecData(c, d, out, err) ==
    [proto_bits |->
        IF out # "fail" \/ err THEN Or16(d.proto_bits, Codecs[c].bit)
        ELSE d.proto_bits,
     codec_flags |->
        IF out = "encap" THEN Or16(d.codec_flags, CODEC_ENCAP_LAYER)
        ELSE d.codec_flags]

\* the loop between two decodes of a successful layer: a save layer loses
\* CODEC_SAVE_LAYER and keeps CODEC_UNSURE_ENCAP for the next layer; any
\* other layer loses CODEC_UNSURE_ENCAP
between_decodes(cf) ==
    IF And16(cf, CODEC_SAVE_LAYER) # 0
    THEN And16(cf, Not16(CODEC_SAVE_LAYER))
    ELSE And16(cf, Not16(CODEC_UNSURE_ENCAP))

NoSave == <<>>

\* one turn of the decode loop: the codec of the next layer decodes; on
\* success the layer is kept (and saved, if it is a save layer); on failure
\* the loop backs out to the saved layer if the failed layer's encapsulation
\* was unsure, and fails the packet if not
DecodeLayer(c, out, err) ==
    LET s1 == codec_SnortData(c, sd, err)
        d1 == codec_CodecData(c, cd, out, err)
        n1 == num_layers + 1
    IN  /\ status = "decoding"
        /\ num_layers < MaxLayers
        /\ c \in NextCodecs(num_layers)
        /\ IF out # "fail"
           THEN /\ sd' = s1
                /\ cd' = [d1 EXCEPT !.codec_flags = between_decodes(@)]
                /\ num_layers' = n1
                /\ saved' = IF And16(d1.codec_flags, CODEC_SAVE_LAYER) # 0
                            THEN <<[sd |-> s1, proto_bits |-> d1.proto_bits,
                                    num_layers |-> n1]>>
                            ELSE saved
                /\ hist' = Append(hist, [decode_flags |-> s1.decode_flags,
                                         proto_bits |-> d1.proto_bits])
                /\ save_at' = IF out = "encap" THEN n1 ELSE save_at
                /\ UNCHANGED <<status, fail_at, fail_wrote>>
           ELSE /\ fail_at' = n1
                /\ fail_wrote' = err
                /\ IF And16(cd.codec_flags, CODEC_UNSURE_ENCAP) # 0
                      /\ saved # NoSave
                   THEN /\ sd' = saved[1].sd
                        /\ cd' = [d1 EXCEPT !.proto_bits = saved[1].proto_bits]
                        /\ num_layers' = saved[1].num_layers
                        /\ status' = "backed_out"
                   ELSE /\ sd' = s1
                        /\ cd' = d1
                        /\ status' = "failed"
                        /\ UNCHANGED num_layers
                /\ UNCHANGED <<saved, hist, save_at>>
        /\ UNCHANGED <<sop, sarg, spre>>
        /\ UNCHANGED <<bufVars, encVars>>

\* the last layer names no next protocol: the decode is complete
FinishDecode ==
    /\ status = "decoding"
    /\ num_layers > 0
    /\ status' = "done"
    /\ UNCHANGED <<cd, num_layers, saved, hist, save_at, fail_at, fail_wrote>>
    /\ UNCHANGED <<bufVars, encVars, sdVars>>

\* the next packet: SnortData is reset and a CodecData constructed
NextPacket ==
    /\ status # "decoding"
    /\ sd' = reset(sd)
    /\ cd' = CodecData
    /\ num_layers' = 0
    /\ status' = "decoding"
    /\ saved' = NoSave
    /\ hist' = <<>>
    /\ save_at' = 0
    /\ fail_at' = 0
    /\ fail_wrote' = FALSE
    /\ UNCHANGED <<sop, sarg, spre>>
    /\ UNCHANGED <<bufVars, encVars>>

----------------------------------------------------------------------------
(* The specifications: one per component, the others idle *)

ZeroSnortData ==
    [tcph |-> Null, udph |-> Null, icmph |-> Null, sp |-> 0, dp |-> 0,
     decode_flags |-> 0, ip_api |-> "none", mplsHdr |-> 0]

\* a Buffer as constructed over an array of any size in CapSet
InitBuffer ==
    /\ max_len \in CapSet
    /\ base = Buffer_base(buf, max_len)
    /\ off = U32(0) /\ end = U32(0)
    /\ bop = "Buffer" /\ barg = max_len /\ bret = TRUE
    /\ bpre = [base |-> buf, off |-> U32(0), end |-> U32(0), lowest |-> NoRegion]
    /\ lowest = NoRegion
    /\ flags = {} /\ ttl = 0 /\ lyr_ttl = 0 /\ ttl_ret = NoTtl
    /\ sd = ZeroSnortData /\ sop = "none" /\ sarg = NoCall /\ spre = NoCall
    /\ cd = CodecData /\ num_layers = 0 /\ status = "decoding"
    /\ saved = NoSave /\ hist = <<>> /\ save_at = 0 /\ fail_at = 0
    /\ fail_wrote = FALSE

NextBuffer ==
    \/ \E len \in LenSet : Allocate(len)
    \/ Clear
    \/ \E v \in OffSet : SetOff(v)

SpecBuffer == InitBuffer /\ [][NextBuffer]_vars

\* an EncState as constructed with any flags and ttl, and the argument of
\* the get_ttl call to come
InitTtl ==
    /\ flags \in EncodeFlagSets
    /\ ttl \in U8
    /\ lyr_ttl \in U8
    /\ ttl_ret = NoTtl
    /\ max_len = U32(0)
    /\ base = Buffer_base(buf, U32(0))
    /\ off = U32(0) /\ end = U32(0)
    /\ bop = "Buffer" /\ barg = U32(0) /\ bret = TRUE
    /\ bpre = [base |-> buf, off |-> U32(0), end |-> U32(0), lowest |-> NoRegion]
    /\ lowest = NoRegion
    /\ sd = ZeroSnortData /\ sop = "none" /\ sarg = NoCall /\ spre = NoCall
    /\ cd = CodecData /\ num_layers = 0 /\ status = "decoding"
    /\ saved = NoSave /\ hist = <<>> /\ save_at = 0 /\ fail_at = 0
    /\ fail_wrote = FALSE

NextTtl == GetTtl

SpecTtl == InitTtl /\ [][NextTtl]_vars

\* a SnortData with null members and any of JunkDecodeFlags
InitPktType ==
    /\ \E df \in JunkDecodeFlags :
          sd = [ZeroSnortData EXCEPT !.decode_flags = df]
    /\ sop = "none" /\ sarg = NoCall /\ spre = NoCall
    /\ max_len = U32(0)
    /\ base = Buffer_base(buf, U32(0))
    /\ off = U32(0) /\ end = U32(0)
    /\ bop = "Buffer" /\ barg = U32(0) /\ bret = TRUE
    /\ bpre = [base |-> buf, off |-> U32(0), end |-> U32(0), lowest |-> NoRegion]
    /\ lowest = NoRegion
    /\ flags = {} /\ ttl = 0 /\ lyr_ttl = 0 /\ ttl_ret = NoTtl
    /\ cd = CodecData /\ num_layers = 0 /\ status = "decoding"
    /\ saved = NoSave /\ hist = <<>> /\ save_at = 0 /\ fail_at = 0
    /\ fail_wrote = FALSE

NextPktType ==
    \/ \E t \in PktType : SetPktType(t)
    \/ \E f \in DecodeFlagBits : SetDecodeFlag(f)

SpecPktType == InitPktType /\ [][NextPktType]_vars

\* a SnortData that holds whatever the memory held
InitReset ==
    /\ sd \in SnortDataValues
    /\ sop = "none" /\ sarg = NoCall /\ spre = NoCall
    /\ max_len = U32(0)
    /\ base = Buffer_base(buf, U32(0))
    /\ off = U32(0) /\ end = U32(0)
    /\ bop = "Buffer" /\ barg = U32(0) /\ bret = TRUE
    /\ bpre = [base |-> buf, off |-> U32(0), end |-> U32(0), lowest |-> NoRegion]
    /\ lowest = NoRegion
    /\ flags = {} /\ ttl = 0 /\ lyr_ttl = 0 /\ ttl_ret = NoTtl
    /\ cd = CodecData /\ num_layers = 0 /\ status = "decoding"
    /\ saved = NoSave /\ hist = <<>> /\ save_at = 0 /\ fail_at = 0
    /\ fail_wrote = FALSE

NextReset ==
    \/ Reset
    \/ \E t \in PktType : SetPktType(t)
    \/ \E f \in FlagsBeforeReset : SetDecodeFlag(f)
    \/ \E st \in Stores : Store(st[1], st[2])

SpecReset == InitReset /\ [][NextReset]_vars

\* the decode of a first packet about to begin
InitDecode ==
    /\ sd = ZeroSnortData /\ sop = "none" /\ sarg = NoCall /\ spre = NoCall
    /\ cd = CodecData /\ num_layers = 0 /\ status = "decoding"
    /\ saved = NoSave /\ hist = <<>> /\ save_at = 0 /\ fail_at = 0
    /\ fail_wrote = FALSE
    /\ max_len = U32(0)
    /\ base = Buffer_base(buf, U32(0))
    /\ off = U32(0) /\ end = U32(0)
    /\ bop = "Buffer" /\ barg = U32(0) /\ bret = TRUE
    /\ bpre = [base |-> buf, off |-> U32(0), end |-> U32(0), lowest |-> NoRegion]
    /\ lowest = NoRegion
    /\ flags = {} /\ ttl = 0 /\ lyr_ttl = 0 /\ ttl_ret = NoTtl

NextDecode ==
    \/ \E c \in DOMAIN Codecs, out \in Outcomes, err \in BOOLEAN :
          DecodeLayer(c, out, err)
    \/ FinishDecode
    \/ NextPacket

SpecDecode == InitDecode /\ [][NextDecode]_vars

----------------------------------------------------------------------------
(* Properties of Buffer *)

\* uint32_t - uint32_t, modulo 2^32
Sub32(a, b) ==
    LET lo == a[2] - b[2]
    IN  <<(a[1] - b[1] - (IF lo < 0 THEN 1 ELSE 0)) % Limb, lo % Limb>>

\* the number a uint32_t stands for, and the distance p - q of two
\* pointers; both for values below 2^31 only
Val(u) == u[1] * Limb + u[2]
PtrDist(p, q) == (p[1] - q[1]) * Limb + (p[2] - q[2])

\* max_len - size() before the last call
RemainingBefore == Sub32(max_len, bpre.end)

\* the first byte of the region the last successful allocate handed out:
\* allocating len bytes moves the data pointer len bytes farther from the
\* end, so the region is the len bytes below the pointer before the call
RegionFirst == PtrSub(bpre.base, barg)

\* C1: an allocate(len) with len greater than the remaining capacity
\* returns false and leaves size(), base and off as they were.
C1_FailedAllocateNoEffect ==
    (bop = "allocate" /\ Gt32(barg, RemainingBefore))
        => (~bret /\ size = bpre.end /\ base = bpre.base /\ off = bpre.off)

\* C2: an allocate(len) with len <= max_len - size() returns true, adds
\* exactly len to size() and moves base down by exactly len.
C2_AllocateSuccess ==
    (bop = "allocate" /\ ~Gt32(barg, RemainingBefore))
        => /\ bret
           /\ Val(size) = Val(bpre.end) + Val(barg)
           /\ PtrDist(bpre.base, base) = Val(barg)
           /\ off = bpre.off

\* a second layer was allocated on top of a first one and filled the buffer
C2_Witness ==
    /\ bop = "allocate" /\ bret
    /\ barg = U32(2) /\ bpre.end = U32(1)
    /\ size = U32(3) /\ max_len = U32(3)

\* C3: size() <= max_len in every state reachable by allocate (with any
\* 32-bit len) and clear.
C3_SizeWithinCapacity == ~Gt32(size, max_len)

\* an allocate whose end + len wrapped around 2^32 was accepted
C3_Witness ==
    /\ bop = "allocate" /\ bret
    /\ barg[1] = Limb - 1
    /\ ~Gt32(size, max_len)

\* C4: clear() leaves size() = 0, off = 0 and base where the constructor
\* put it.
C4_ClearRestoresEmpty ==
    bop = "clear"
        => (size = U32(0) /\ off = U32(0) /\ base = Buffer_base(buf, max_len))

\* C9: the empty buffer's base is buf + size, and the committed region
\* [base, base + size()) lies within the array [buf, buf + max_len).
C9_RegionInsideArray ==
    /\ size = U32(0) => base = PtrAdd(buf, max_len)
    /\ PtrLe(buf, base)
    /\ PtrLe(PtrAdd(base, size), PtrAdd(buf, max_len))

\* C10: after a successful allocate(len) with len > 0, base + size() is
\* the first byte of the region just allocated, and that region lies below
\* every region allocated since the last clear().
C10_BasePlusSizeIsRegionFirst ==
    (bop = "allocate" /\ bret /\ barg # U32(0))
        => /\ PtrAdd(base, size) = RegionFirst
           /\ bpre.lowest # NoRegion
                => /\ PtrLe(PtrAdd(RegionFirst, barg), bpre.lowest)
                   /\ ~PtrLe(bpre.lowest, RegionFirst)

----------------------------------------------------------------------------
(* Properties of EncState *)

Max(a, b) == IF a >= b THEN a ELSE b

\* C5: get_ttl returns lyr_ttl (forward, no override), ttl (forward,
\* override), max(255 - lyr_ttl, 64) (reverse, no override) and
\* max(ttl, 64) (reverse, override); a reverse result is at least 64.
C5_TtlPolicy ==
    ttl_ret # NoTtl =>
        LET r == ttl_ret[1]
            fwd == 63 \in flags
            override == 54 \in flags
        IN  /\ (fwd /\ ~override) => r = lyr_ttl
            /\ (fwd /\ override) => r = ttl
            /\ (~fwd /\ ~override) => r = Max(255 - lyr_ttl, 64)
            /\ (~fwd /\ override) => r = Max(ttl, 64)
            /\ ~fwd => r >= 64

\* a reverse response to a layer with ttl 250 got the floor, not 5
C5_Witness ==
    /\ ttl_ret = Returned(64)
    /\ flags = {}
    /\ lyr_ttl = 250

----------------------------------------------------------------------------
(* Properties of SnortData *)

\* bits 3..15 of a decode_flags value
HighBits(df) == df \div 8

\* C6: after set_pkt_type(t), get_pkt_type() returns t and bits 3..15 of
\* decode_flags are what they were before the call.
C6_PktTypeLowBitsOnly ==
    sop = "set_pkt_type"
        => /\ get_pkt_type(sd.decode_flags) = sarg[1]
           /\ HighBits(sd.decode_flags) = HighBits(spre[1])

\* the type was set to ARP over a field with every bit set
C6_Witness ==
    /\ sop = "set_pkt_type"
    /\ sarg = <<PKT_TYPE_ARP>>
    /\ spre = <<65535>>
    /\ sd.decode_flags = 65534

\* C7: after reset() the header pointers are null, the ports and
\* decode_flags are 0 (the type is UNKOWN, no flag is set) and the IpApi
\* has been reset.
C7_ResetClears ==
    sop = "reset"
        => /\ sd.tcph = Null /\ sd.udph = Null /\ sd.icmph = Null
           /\ sd.sp = 0 /\ sd.dp = 0
           /\ sd.decode_flags = 0
           /\ get_pkt_type(sd.decode_flags) = PKT_TYPE_UNKOWN
           /\ \A f \in DecodeFlagBits : And16(sd.decode_flags, f) = 0
           /\ sd.ip_api = "none"

\* reset() was called on a SnortData whose every member was non-zero
C7_Witness ==
    /\ sop = "reset"
    /\ spre[1].tcph # Null /\ spre[1].udph # Null /\ spre[1].icmph # Null
    /\ spre[1].sp = 65535 /\ spre[1].dp = 65535
    /\ spre[1].decode_flags = 65535
    /\ spre[1].ip_api = "ip4"
    /\ sd.decode_flags = 0

----------------------------------------------------------------------------
(* Properties of the decode loop *)

\* C8: when the layer right after a layer marked CODEC_ENCAP_LAYER fails,
\* the decode backs out: it ends with the layers, decode_flags and
\* proto_bits it had after the marked layer and does not fail the packet;
\* a failure of any other layer fails the packet; between decodes
\* CODEC_SAVE_LAYER is clear and CODEC_UNSURE_ENCAP is set only right after
\* the marked layer.
C8_OneLevelBackOut ==
    /\ fail_at # 0 =>
          IF save_at # 0 /\ fail_at = save_at + 1
          THEN /\ status = "backed_out"
               /\ num_layers = save_at
               /\ sd.decode_flags = hist[save_at].decode_flags
               /\ cd.proto_bits = hist[save_at].proto_bits
          ELSE status = "failed"
    /\ status = "decoding" =>
          /\ And16(cd.codec_flags, CODEC_SAVE_LAYER) = 0
          /\ And16(cd.codec_flags, CODEC_UNSURE_ENCAP) # 0
                <=> (save_at # 0 /\ save_at = num_layers)

\* eth, then ipv4 marked as the save layer, then a third layer that flagged
\* a decode error and failed: the decode stands at eth + ipv4
C8_Witness ==
    /\ status = "backed_out"
    /\ save_at = 2 /\ fail_at = 3 /\ fail_wrote
    /\ num_layers = 2
    /\ cd.proto_bits = PROTO_BIT__ETH + PROTO_BIT__IP
    /\ sd.decode_flags = 0

====
